---- MODULE Spec2Model ----
(***************************************************************************)
(* Model of the end-to-end encryption core of the chat client:             *)
(*   src/src/services/e2eeService.js        primitives and key store       *)
(*   src/src/services/notificationService.js  SignalProtocol (X3DH and     *)
(*                                            Double Ratchet), l.193-735   *)
(*   src/src/utils/bufferPolyfill.js        Buffer.from / Buffer.concat    *)
(*   src/src/services/e2eeManager.js        callers: session ids, bundles  *)
(*   src/src/services/mediaEncryption.js    encryptFile / decryptFile      *)
(*   src/src/services/messageQueue.js       MessageQueue                   *)
(*                                                                         *)
(* The specifications share the same actions:                              *)
(*   Spec      two devices exchanging the envelopes they really produce;   *)
(*   SpecPeer  the responder talking to a peer that follows the protocol,  *)
(*             with envelopes altered in transit;                          *)
(*   SpecX3DH  key bundles and the handshake alone, with forged bundles;   *)
(*   SpecSession  initSession and acceptSession await by await, with       *)
(*             concurrent calls and interruptions;                         *)
(*   SpecResponder  the responder of SpecPeer without one-time prekeys;    *)
(*   SpecMedia  the responder decrypting files a peer sends;               *)
(*   SpecQueue  the sender's MessageQueue, await by await, and             *)
(*   SpecQueueFair  the same when every await of the queue settles.        *)
(*                                                                         *)
(* Byte strings are symbolic terms: tuples whose first element is a tag.   *)
(* Two terms are equal exactly when the bytes they stand for are equal,    *)
(* assuming that random keys and nonces never repeat and that hashes and   *)
(* the first 16 characters of distinct random keys never collide.          *)
(***************************************************************************)
EXTENDS Integers, Sequences, FiniteSets, TLC

VARIABLES
    sodiumStrict,   \* does crypto_scalarmult reject a key of the wrong length
    fresh,          \* number of random values each device has drawn and kept
    secure,         \* SecureStore of each device: set of <<keyId, value>>
    async,          \* AsyncStorage of each device, apart from the sessions
    sessions,       \* AsyncStorage entries session_<id> of each device
    server,         \* prekey bundle published for each device
    wire,           \* handshake headers handed to the transport
    calls,          \* ratchetEncrypt / ratchetDecrypt calls that are suspended
    outbox,         \* envelopes returned by ratchetEncrypt
    delivered,      \* envelopes whose plaintext ratchetDecrypt returned
    lastRet,        \* outcome of the operation that completed last
    msgs,           \* MessageQueue: the message objects enqueued, by id
    queue,          \* MessageQueue.queue: ids of the queued message objects
    processing,     \* MessageQueue.processing
    loops,          \* processQueue calls that are suspended at an await
    listeners,      \* MessageQueue.listeners: ids with a status callback
    notified,       \* calls made to status callbacks: <<id, status>>
    attempts,       \* number of sendMessage calls made for each message
    emitted,        \* 'message:send' events handed to the socket
    connected,      \* socketService.isSocketConnected()
    retryAlls       \* number of retryAll calls made

mqVars == <<msgs, queue, processing, loops, listeners, notified, attempts, emitted,
            connected, retryAlls>>

vars == <<sodiumStrict, fresh, secure, async, sessions, server, wire, calls,
          outbox, delivered, lastRet, mqVars>>

\* ------------------------------------------------------------------ bounds
MaxFresh == 6
MaxOtp == 1
MaxCounter == 2
MaxCalls == 2
MaxMsgs == 2
MaxRetryAll == 1
MaxLoops == 2

Devices == {"A", "B"}
Initiators == {"A"}
Responders == {"B"}
Slots == 1..MaxCalls

\* the k-th random value of device d; random values never repeat
Rnd(d, k) == <<d, k>>

\* ------------------------------------------------------- values and strings
Null == <<"null">>

Str(s) == <<"str", s>>

Plaintexts == {Str(""), Str("hello")}

\* sodium.to_base64 / sodium.from_base64
toBase64(bytes) == <<"b64", bytes>>

fromBase64(base64String) == base64String[2]

\* sodium.from_string: the UTF-8 bytes of a string
from_string(s) == <<"utf8", s>>

\* BufferPolyfill.from(x): TextEncoder().encode(x). A string argument is
\* encoded as it is; a Uint8Array argument is first coerced to a string, which
\* is the decimal, comma-separated list of its bytes.
BufferFrom(x) ==
    IF x[1] = "str" THEN from_string(x)
    ELSE IF x = from_string(Str("")) THEN from_string(Str(""))
    ELSE from_string(<<"csv", x>>)

\* Uint8Array.prototype.toString: the decimal, comma-separated list of the
\* bytes; the encoding argument is ignored. No bytes give the empty string.
Uint8ArrayToString(bytes) ==
    IF bytes = from_string(Str("")) THEN Str("") ELSE <<"csv", bytes>>

\* ------------------------------------------------------------- primitives
\* crypto_sign_keypair: Ed25519, 64-byte private key
generateIdentityKeyPair(n) ==
    [publicKey |-> toBase64(<<"pub", "ed", n>>),
     privateKey |-> toBase64(<<"priv", "ed", n>>)]

\* crypto_kx_keypair: X25519, 32-byte private key
generateX25519KeyPair(n) ==
    [publicKey |-> toBase64(<<"pub", "x", n>>),
     privateKey |-> toBase64(<<"priv", "x", n>>)]

sign(data, privateKeyB64) ==
    toBase64(<<"sig", data, fromBase64(privateKeyB64)[3]>>)

verify(data, signatureB64, publicKeyB64) ==
    /\ fromBase64(publicKeyB64)[2] = "ed"
    /\ signatureB64 = toBase64(<<"sig", data, fromBase64(publicKeyB64)[3]>>)

\* performDH throws when an operand is null (from_base64 of null) and, with a
\* library that checks lengths, when the private key is an Ed25519 one.
performDHThrows(ourPrivateKeyB64, theirPublicKeyB64) ==
    \/ ourPrivateKeyB64 = Null
    \/ theirPublicKeyB64 = Null
    \/ (sodiumStrict /\ fromBase64(ourPrivateKeyB64)[2] = "ed")

\* crypto_scalarmult(n, p). For an X25519 private key and the X25519 public key
\* of another pair the result is the shared secret of the two pairs. An
\* Ed25519 key is not the X25519 key of the same pair, so with such an operand
\* the result depends on the operands as given and is shared with nobody.
performDH(ourPrivateKeyB64, theirPublicKeyB64) ==
    LET n == fromBase64(ourPrivateKeyB64)
        p == fromBase64(theirPublicKeyB64)
    IN  IF n[2] = "x" /\ p[2] = "x"
        THEN <<"dh", {n[3], p[3]}>>
        ELSE <<"scalarmult", n[2], n[3], p[2], p[3]>>

hkdf(inputKeyMaterial, salt, info, outputLength) ==
    <<"hkdf", inputKeyMaterial, salt, info, outputLength>>

\* Uint8Array.slice(start, start + 32) of a 64-byte derivation
slice(okm, start) == <<"slice", okm, start>>

\* Buffer.concat
BufferConcat(arrays) == <<"concat", arrays>>

deriveInitialKeys(dh1, dh2, dh3, dh4) ==
    LET combinedSecret == IF dh4 # Null THEN BufferConcat(<<dh1, dh2, dh3, dh4>>)
                          ELSE BufferConcat(<<dh1, dh2, dh3>>)
        derivedKeys == hkdf(combinedSecret, "WhispChat-X3DH-V1", "RootChainKeys", 64)
    IN  [rootKey |-> slice(derivedKeys, 0), chainKey |-> slice(derivedKeys, 32)]

encryptAEAD(plaintext, key, nonce, associatedData) ==
    <<"aead", key, nonce, associatedData,
      IF plaintext[1] = "str" THEN from_string(plaintext) ELSE plaintext>>

\* a decryptAEAD whose tag does not cover the nonce
decryptAEAD_nonceUnbound(ciphertext, key, nonce, associatedData) ==
    IF /\ ciphertext[1] = "aead"
       /\ ciphertext[2] = key
       /\ ciphertext[4] = associatedData
    THEN ciphertext[5]
    ELSE Null

\* the bytes under the seal, or Null when the library rejects the tag
decryptAEAD(ciphertext, key, nonce, associatedData) ==
    IF /\ ciphertext[1] = "aead"
       /\ ciphertext[2] = key
       /\ ciphertext[3] = nonce
       /\ ciphertext[4] = associatedData
    THEN ciphertext[5]
    ELSE Null

\* ------------------------------------------------------------- key stores
Has(store, id) == \E e \in store : e[1] = id

Get(store, id) ==
    IF Has(store, id) THEN (CHOOSE e \in store : e[1] = id)[2] ELSE Null

Put(store, id, value) == {e \in store : e[1] # id} \cup {<<id, value>>}

Del(store, id) == {e \in store : e[1] # id}

\* e2eeService.storePrivateKey / getPrivateKey / deletePrivateKey
getPrivateKey(d, keyId) == Get(secure[d], keyId)

\* SignalProtocol.saveSessionState / getSessionState
NoState == [sessionId |-> Null]

\* a getSessionState that makes up a state for an id that is not stored
getSessionState_default(d, sessionId) ==
    IF sessionId \in DOMAIN sessions[d] THEN sessions[d][sessionId]
    ELSE [sessionId |-> sessionId,
          peerIdentityKey |-> Null,
          rootKey |-> toBase64(<<"zero">>),
          sendingChainKey |-> toBase64(<<"zero">>),
          sendingChainLength |-> 0,
          receivingChainKey |-> Null,
          receivingChainLength |-> 0,
          senderRatchetPrivate |-> toBase64(<<"priv", "x", "zero">>),
          senderRatchetPublic |-> toBase64(<<"pub", "x", "zero">>),
          receiverRatchetPublic |-> toBase64(<<"pub", "x", "zero">>),
          previousSendingChainLength |-> 0,
          skippedMessageKeys |-> {}]

getSessionState(d, sessionId) ==
    IF sessionId \in DOMAIN sessions[d] THEN sessions[d][sessionId] ELSE NoState

saveSessionState(store, sessionId, state) ==
    [s \in DOMAIN store \cup {sessionId} |->
        IF s = sessionId THEN state ELSE store[s]]

\* identityKey.slice(0, 16)
slice16(identityKey) == <<"slice16", identityKey>>

NoBundle == [identityKey |-> Null]

\* a slot for a processQueue call; none is running at start
Loops == 1..MaxLoops

NoLoop == [pc |-> "none", id |-> 0]

NoRet == [op |-> "none", dev |-> "A", status |-> "none"]

Init ==
    /\ sodiumStrict \in BOOLEAN
    /\ fresh = [d \in Devices |-> 0]
    /\ secure = [d \in Devices |-> {}]
    /\ async = [d \in Devices |->
                  [identity_public |-> Null, current_signed_prekey_id |-> Null]]
    /\ sessions = [d \in Devices |-> <<>>]
    /\ server = [d \in Devices |-> NoBundle]
    /\ wire = {}
    /\ calls = [d \in Devices |-> [i \in Slots |-> [op |-> "none"]]]
    /\ outbox = {}
    /\ delivered = {}
    /\ lastRet = NoRet
    /\ msgs = <<>>
    /\ queue = <<>>
    /\ processing = FALSE
    /\ loops = [l \in Loops |-> NoLoop]
    /\ listeners = {}
    /\ notified = <<>>
    /\ attempts = <<>>
    /\ emitted = {}
    /\ connected = TRUE
    /\ retryAlls = 0

\* --------------------------------------------------- key bundle management
\* Date.now() as an identifier; the clock is taken to advance between calls
Stamp(n) == <<"t", n>>

\* SignalProtocol.generatePrekeyBundle(count), and the upload of its result
GeneratePrekeyBundle(d, count) ==
    LET haveId == getPrivateKey(d, <<"identity_private">>) # Null
        identityKeyPair == generateIdentityKeyPair(Rnd(d, fresh[d] + 1))
        identityPrivateKey == IF haveId THEN getPrivateKey(d, <<"identity_private">>)
                              ELSE identityKeyPair.privateKey
        identityPublicKey == IF haveId THEN async[d].identity_public
                             ELSE identityKeyPair.publicKey
        n == IF haveId THEN fresh[d] ELSE fresh[d] + 1
        signedPrekeyPair == generateX25519KeyPair(Rnd(d, n + 1))
        signedPrekeyId == Stamp(n + 1)
        signature == sign(signedPrekeyPair.publicKey, identityPrivateKey)
        oneTimePrekeys == [i \in 1..count |->
                             [id |-> <<"t", n + 1 + i, i - 1>>,
                              publicKey |->
                                generateX25519KeyPair(Rnd(d, n + 1 + i)).publicKey]]
        otpEntries == {<<(<<"otp", oneTimePrekeys[i].id>>),
                         generateX25519KeyPair(Rnd(d, n + 1 + i)).privateKey>>
                            : i \in 1..count}
        store1 == IF haveId THEN secure[d]
                  ELSE Put(secure[d], <<"identity_private">>, identityPrivateKey)
        store2 == Put(store1, <<"signed_prekey", signedPrekeyId>>,
                      signedPrekeyPair.privateKey)
        bundle == [identityKey |-> identityPublicKey,
                   signedPrekey |-> [id |-> signedPrekeyId,
                                     publicKey |-> signedPrekeyPair.publicKey,
                                     signature |-> signature],
                   oneTimePrekeys |-> oneTimePrekeys]
    IN  /\ n + 1 + count <= MaxFresh
        /\ fresh' = [fresh EXCEPT ![d] = n + 1 + count]
        /\ secure' = [secure EXCEPT ![d] = store2 \cup otpEntries]
        /\ async' = [async EXCEPT ![d] =
                        [identity_public |-> identityPublicKey,
                         current_signed_prekey_id |-> signedPrekeyId]]
        /\ server' = [server EXCEPT ![d] = bundle]
        /\ lastRet' = [op |-> "generatePrekeyBundle", dev |-> d, status |-> "ok"]
        /\ UNCHANGED <<mqVars, delivered, sodiumStrict, sessions, wire, calls, outbox>>

\* a verifyPrekeyBundle that accepts every bundle
verifyPrekeyBundle_accepting(bundle) == TRUE

\* SignalProtocol.verifyPrekeyBundle: TRUE when it returns, FALSE when it throws
verifyPrekeyBundle(bundle) ==
    verify(bundle.signedPrekey.publicKey, bundle.signedPrekey.signature,
           bundle.identityKey)

\* ------------------------------------------------- X3DH, initiating side
\* SignalProtocol.initiateSession(bobBundle) run with the caller's identity
\* keys on device d, the ephemeral and the sender ratchet key pair being the
\* random values n+1 and n+2 of the device.
\* status is "ok" or the error thrown; dh counts the performDH calls that
\* were made and keys the key pairs that were generated before the outcome.
initiateSession(bobBundle, aliceIdentityPrivate, aliceIdentityPublic, d, n) ==
    LET aliceEphemeralPair == generateX25519KeyPair(Rnd(d, n + 1))
        spk == bobBundle.signedPrekey.publicKey
        dh1 == performDH(aliceIdentityPrivate, spk)
        dh2 == performDH(aliceEphemeralPair.privateKey, bobBundle.identityKey)
        dh3 == performDH(aliceEphemeralPair.privateKey, spk)
        useOtp == Len(bobBundle.oneTimePrekeys) > 0
        dh4 == IF useOtp
               THEN performDH(aliceEphemeralPair.privateKey,
                              bobBundle.oneTimePrekeys[1].publicKey)
               ELSE Null
        usedOneTimePrekey == IF useOtp THEN bobBundle.oneTimePrekeys[1].id ELSE Null
        rootKey == deriveInitialKeys(dh1, dh2, dh3, dh4).rootKey
        senderRatchetPair == generateX25519KeyPair(Rnd(d, n + 2))
        dhOut == performDH(senderRatchetPair.privateKey, spk)
        ratchetKeys == hkdf(BufferConcat(<<rootKey, dhOut>>),
                            "WhispChat-Ratchet", "ChainKey", 64)
        sessionId == slice16(bobBundle.identityKey)
        sessionState ==
            [sessionId |-> sessionId,
             peerIdentityKey |-> bobBundle.identityKey,
             rootKey |-> toBase64(slice(ratchetKeys, 0)),
             sendingChainKey |-> toBase64(slice(ratchetKeys, 32)),
             sendingChainLength |-> 0,
             receivingChainKey |-> Null,
             receivingChainLength |-> 0,
             senderRatchetPrivate |-> senderRatchetPair.privateKey,
             senderRatchetPublic |-> senderRatchetPair.publicKey,
             receiverRatchetPublic |-> spk,
             previousSendingChainLength |-> 0,
             skippedMessageKeys |-> {}]
        initialHeader ==
            [identityKey |-> aliceIdentityPublic,
             ephemeralKey |-> aliceEphemeralPair.publicKey,
             usedOneTimePrekey |-> usedOneTimePrekey,
             senderRatchetKey |-> senderRatchetPair.publicKey]
    IN  IF ~verifyPrekeyBundle(bobBundle)
        THEN [status |-> "InvalidSignature", dh |-> 0, keys |-> 0]
        ELSE IF performDHThrows(aliceIdentityPrivate, spk)
        THEN [status |-> "TypeError", dh |-> 0, keys |-> 1]
        ELSE [status |-> "ok", dh |-> IF useOtp THEN 5 ELSE 4, keys |-> 2,
              sessionId |-> sessionId, sessionState |-> sessionState,
              initialHeader |-> initialHeader, rootKey |-> rootKey]

\* what the key-bundle channel may hand to initiateSession: the bundle a
\* device published, with or without its one-time prekey, or that bundle
\* with the signed prekey or the signature replaced in transit
Intruder == generateX25519KeyPair(Rnd("I", 0))

FetchedBundles(d) ==
    LET published == {server[e] : e \in {x \in Devices \ {d} : server[x] # NoBundle}}
        popped == {[b EXCEPT !.oneTimePrekeys = <<>>] : b \in published}
        forgedKey == {[b EXCEPT !.signedPrekey.publicKey = Intruder.publicKey] :
                        b \in published}
        forgedSig == {[b EXCEPT !.signedPrekey.signature =
                            sign(b.signedPrekey.publicKey,
                                 generateIdentityKeyPair(Rnd("I", 1)).privateKey)] :
                        b \in published}
    IN  published \cup popped \cup forgedKey \cup forgedSig

InitiateSession(d, bobBundle) ==
    LET r == initiateSession(bobBundle, getPrivateKey(d, <<"identity_private">>),
                             async[d].identity_public, d, fresh[d])
    IN  /\ bobBundle \in FetchedBundles(d)
        /\ fresh[d] + r.keys <= MaxFresh
        /\ fresh' = [fresh EXCEPT ![d] = @ + IF r.status = "ok" THEN r.keys ELSE 0]
        /\ IF r.status = "ok"
           THEN /\ sessions' = [sessions EXCEPT ![d] =
                        saveSessionState(sessions[d], r.sessionId, r.sessionState)]
                /\ wire' = wire \cup {[from |-> d, header |-> r.initialHeader,
                                        signedPrekeyId |-> bobBundle.signedPrekey.id,
                                        rootKey |-> r.sessionState.rootKey,
                                        sendingChainKey |->
                                            r.sessionState.sendingChainKey]}
           ELSE UNCHANGED <<sessions, wire>>
        /\ lastRet' = [op |-> "initiateSession", dev |-> d, status |-> r.status,
                       dh |-> r.dh]
        /\ UNCHANGED <<mqVars, delivered, sodiumStrict, secure, async, server, calls, outbox>>

\* ------------------------------------------------- X3DH, responding side
\* SignalProtocol.acceptSession(aliceHeader) run on the key store `store` with
\* current_signed_prekey_id = signedPrekeyId. store is the key store the call
\* leaves behind, whether it returns or throws.
acceptSession(aliceHeader, store, signedPrekeyId) ==
    LET bobIdentityPrivate == Get(store, <<"identity_private">>)
        bobSignedPrekeyPrivate == Get(store, <<"signed_prekey", signedPrekeyId>>)
        otpId == <<"otp", aliceHeader.usedOneTimePrekey>>
        bobOneTimePrekeyPrivate ==
            IF aliceHeader.usedOneTimePrekey # Null THEN Get(store, otpId) ELSE Null
        store1 == IF bobOneTimePrekeyPrivate # Null THEN Del(store, otpId) ELSE store
        dh1 == performDH(bobSignedPrekeyPrivate, aliceHeader.identityKey)
        dh2 == performDH(bobIdentityPrivate, aliceHeader.ephemeralKey)
        dh3 == performDH(bobSignedPrekeyPrivate, aliceHeader.ephemeralKey)
        dh4 == IF bobOneTimePrekeyPrivate # Null
               THEN performDH(bobOneTimePrekeyPrivate, aliceHeader.ephemeralKey)
               ELSE Null
        rootKey == deriveInitialKeys(dh1, dh2, dh3, dh4).rootKey
        dhOut == performDH(bobSignedPrekeyPrivate, aliceHeader.senderRatchetKey)
        ratchetKeys == hkdf(BufferConcat(<<rootKey, dhOut>>),
                            "WhispChat-Ratchet", "ChainKey", 64)
        sessionId == slice16(aliceHeader.identityKey)
        sessionState ==
            [sessionId |-> sessionId,
             peerIdentityKey |-> aliceHeader.identityKey,
             rootKey |-> toBase64(slice(ratchetKeys, 0)),
             sendingChainKey |-> Null,
             sendingChainLength |-> 0,
             receivingChainKey |-> toBase64(slice(ratchetKeys, 32)),
             receivingChainLength |-> 0,
             senderRatchetPrivate |-> Null,
             senderRatchetPublic |-> Null,
             receiverRatchetPublic |-> aliceHeader.senderRatchetKey,
             previousSendingChainLength |-> 0,
             skippedMessageKeys |-> {}]
    IN  IF bobSignedPrekeyPrivate = Null
        THEN [status |-> "SignedPrekeyNotFound", store |-> store, dh |-> 0]
        ELSE IF performDHThrows(bobSignedPrekeyPrivate, aliceHeader.identityKey)
        THEN [status |-> "TypeError", store |-> store1, dh |-> 0]
        ELSE IF performDHThrows(bobIdentityPrivate, aliceHeader.ephemeralKey)
        THEN [status |-> "TypeError", store |-> store1, dh |-> 1]
        ELSE [status |-> "ok", store |-> store1,
              dh |-> IF dh4 # Null THEN 5 ELSE 4,
              sessionId |-> sessionId, sessionState |-> sessionState,
              rootKey |-> rootKey, dh4 |-> dh4]

AcceptSession(d, w) ==
    LET r == acceptSession(w.header, secure[d], async[d].current_signed_prekey_id)
    IN  /\ w \in wire
        /\ secure' = [secure EXCEPT ![d] = r.store]
        /\ IF r.status = "ok"
           THEN sessions' = [sessions EXCEPT ![d] =
                        saveSessionState(sessions[d], r.sessionId, r.sessionState)]
           ELSE UNCHANGED sessions
        /\ lastRet' = [op |-> "acceptSession", dev |-> d, status |-> r.status,
                       dh |-> r.dh]
        /\ UNCHANGED <<mqVars, delivered, sodiumStrict, fresh, async, server, wire, calls, outbox>>

\* ------------------------------------------------------- Double Ratchet
\* one step of the symmetric ratchet, applied k times
RECURSIVE Advance(_, _)
Advance(chainKey, k) ==
    IF k = 0 THEN chainKey
    ELSE Advance(hkdf(chainKey, "ChainKey", "Advance", 32), k - 1)

\* SignalProtocol.deriveMessageKey(chainKeyB64, index)
deriveMessageKey(chainKeyB64, index) ==
    hkdf(Advance(fromBase64(chainKeyB64), index), "MessageKey", index, 32)

\* Buffer.from(`${sessionId}:${counter}`)
AssociatedData(sessionId, counter) == from_string(<<"template", sessionId, counter>>)

\* SignalProtocol.ratchetEncrypt between getSessionState and saveSessionState:
\* state is the loaded state, n the number of random values device d has
\* drawn before.
ratchetEncrypt(state, sessionId, plaintext, d, n) ==
    LET first == state.senderRatchetPrivate = Null
        senderRatchetPair == generateX25519KeyPair(Rnd(d, n + 1))
        dhOut == performDH(senderRatchetPair.privateKey, state.receiverRatchetPublic)
        ratchetKeys == hkdf(BufferConcat(<<fromBase64(state.rootKey), dhOut>>),
                            "WhispChat-Ratchet", "ChainKey", 64)
        s1 == IF first
              THEN [state EXCEPT !.senderRatchetPrivate = senderRatchetPair.privateKey,
                                 !.senderRatchetPublic = senderRatchetPair.publicKey,
                                 !.rootKey = toBase64(slice(ratchetKeys, 0)),
                                 !.sendingChainKey = toBase64(slice(ratchetKeys, 32)),
                                 !.sendingChainLength = 0]
              ELSE state
        m == IF first THEN n + 1 ELSE n
        chainKey == fromBase64(s1.sendingChainKey)
        messageKey == hkdf(chainKey, "MessageKey", s1.sendingChainLength, 32)
        newChainKey == hkdf(chainKey, "ChainKey", "Advance", 32)
        nonce == <<"nonce", Rnd(d, m + 1)>>
        associatedData == AssociatedData(sessionId, s1.sendingChainLength)
        ciphertext == encryptAEAD(plaintext, messageKey, nonce, associatedData)
        messageCounter == s1.sendingChainLength
        s2 == [s1 EXCEPT !.sendingChainKey = toBase64(newChainKey),
                         !.sendingChainLength = @ + 1]
    IN  IF s1.sendingChainKey = Null
        THEN [status |-> "TypeError", drawn |-> 0]
        ELSE [status |-> "ok", drawn |-> m + 1 - n, state |-> s2,
              envelope |-> [ciphertext |-> toBase64(ciphertext),
                            header |-> [senderRatchetKey |-> s2.senderRatchetPublic,
                                        messageCounter |-> messageCounter,
                                        previousChainLength |->
                                            s2.previousSendingChainLength],
                            nonce |-> toBase64(nonce)]]

\* SignalProtocol.performDHRatchet(state, newSenderRatchetKey) with the new
\* key pair being the random value n
performDHRatchet(state, newSenderRatchetKey, n) ==
    LET newRatchetPair == generateX25519KeyPair(n)
        dhOut == performDH(newRatchetPair.privateKey, newSenderRatchetKey)
        ratchetKeys == hkdf(BufferConcat(<<fromBase64(state.rootKey), dhOut>>),
                            "WhispChat-Ratchet", "ChainKey", 64)
    IN  [state EXCEPT !.previousSendingChainLength = state.sendingChainLength,
                      !.receiverRatchetPublic = newSenderRatchetKey,
                      !.rootKey = toBase64(slice(ratchetKeys, 0)),
                      !.receivingChainKey = toBase64(slice(ratchetKeys, 32)),
                      !.receivingChainLength = 0,
                      !.senderRatchetPrivate = newRatchetPair.privateKey,
                      !.senderRatchetPublic = newRatchetPair.publicKey]

\* `${header.senderRatchetKey}:${i}`
SkipKeyId(senderRatchetKey, i) == <<senderRatchetKey, i>>

\* the loop of ratchetDecrypt that stores the keys of the skipped messages
RECURSIVE StoreSkipped(_, _, _, _)
StoreSkipped(skipped, state, header, i) ==
    IF i >= header.messageCounter THEN skipped
    ELSE StoreSkipped(Put(skipped, SkipKeyId(header.senderRatchetKey, i),
                          toBase64(deriveMessageKey(state.receivingChainKey, i))),
                      state, header, i + 1)

\* a ratchetDecrypt that saves the state before it checks the seal
Thrown_afterSave(status, drawn, local) ==
    [status |-> status, drawn |-> drawn, save |-> local, local |-> local]

\* The outcome of a ratchetDecrypt in which an await throws: the exception
\* leaves the function, so the saveSessionState further down does not run and
\* the changes stay in the local copy of the state.
Thrown(status, drawn, local) ==
    [status |-> status, drawn |-> drawn, save |-> NoState, local |-> local]

\* SignalProtocol.ratchetDecrypt between getSessionState and its outcome.
\* save is the state handed to saveSessionState, or NoState when the call throws
\* before it gets there.
ratchetDecrypt(state, sessionId, encryptedMessage, d, n) ==
    LET header == encryptedMessage.header
        ratchet == header.senderRatchetKey # state.receiverRatchetPublic
        s1 == IF ratchet THEN performDHRatchet(state, header.senderRatchetKey, Rnd(d, n + 1))
              ELSE state
        drawn == IF ratchet THEN 1 ELSE 0
        skip == header.messageCounter > s1.receivingChainLength
        s2 == IF skip
              THEN [s1 EXCEPT !.skippedMessageKeys =
                        StoreSkipped(@, s1, header, s1.receivingChainLength)]
              ELSE s1
        skipKeyId == SkipKeyId(header.senderRatchetKey, header.messageCounter)
        stored == Has(s2.skippedMessageKeys, skipKeyId)
        messageKey == IF stored THEN fromBase64(Get(s2.skippedMessageKeys, skipKeyId))
                      ELSE deriveMessageKey(s2.receivingChainKey, header.messageCounter)
        s3 == IF stored
              THEN [s2 EXCEPT !.skippedMessageKeys = Del(@, skipKeyId)]
              ELSE [s2 EXCEPT !.receivingChainKey =
                        toBase64(hkdf(fromBase64(s2.receivingChainKey),
                                      "ChainKey", "Advance", 32)),
                              !.receivingChainLength = header.messageCounter + 1]
        associatedData == AssociatedData(sessionId, header.messageCounter)
        plaintextBytes == decryptAEAD(fromBase64(encryptedMessage.ciphertext),
                                      messageKey,
                                      fromBase64(encryptedMessage.nonce),
                                      associatedData)
    IN  IF s1.receivingChainKey = Null /\ (skip \/ ~stored)
        THEN Thrown("TypeError", drawn, s1)
        ELSE IF plaintextBytes = Null
        THEN Thrown("AuthenticationFailure", drawn, s3)
        ELSE [status |-> "ok", drawn |-> drawn, save |-> s3, local |-> s3,
              usedSkipped |-> IF stored THEN skipKeyId ELSE Null,
              plaintext |-> Uint8ArrayToString(BufferFrom(plaintextBytes))]

\* ------------------------------------------------------------- the calls
Idle == [op |-> "none"]

\* a new call takes the first free slot of its device
FreeSlot(d, i) ==
    /\ calls[d][i] = Idle
    /\ \A j \in Slots : j < i => calls[d][j] # Idle

\* session ids a caller passes: those of the stored sessions and the user id
\* of the peer, which is what the application uses (e2eeManager.js:77,141)
UserId(e) == <<"uid", e>>

SessionIds(d) == DOMAIN sessions[d] \cup {UserId(e) : e \in Devices \ {d}}

\* ratchetEncrypt up to its await of saveSessionState
EncryptStart(d, i, sessionId, plaintext) ==
    LET state == getSessionState(d, sessionId)
        r == ratchetEncrypt(state, sessionId, plaintext, d, fresh[d])
        status == IF state = NoState THEN "NoSession" ELSE r.status
    IN  /\ FreeSlot(d, i)
        /\ sessionId \in SessionIds(d)
        /\ plaintext \in Plaintexts
        /\ state # NoState => /\ state.sendingChainLength <= MaxCounter
                              /\ fresh[d] + r.drawn <= MaxFresh
        /\ IF status = "ok"
           THEN /\ calls' = [calls EXCEPT ![d][i] =
                        [op |-> "ratchetEncrypt",
                         sessionId |-> sessionId, state |-> r.state,
                         ratchet |-> state.senderRatchetPrivate = Null,
                         plaintext |-> plaintext, envelope |-> r.envelope]]
                /\ fresh' = [fresh EXCEPT ![d] = @ + r.drawn]
                /\ UNCHANGED lastRet
           ELSE /\ lastRet' = [op |-> "ratchetEncrypt", dev |-> d, status |-> status]
                /\ UNCHANGED <<calls, fresh>>
        /\ UNCHANGED <<mqVars, delivered, sodiumStrict, secure, async, sessions, server, wire, outbox>>

\* the chain key a receiving chain started from
RECURSIVE ChainBase(_)
ChainBase(chainKey) ==
    IF chainKey[1] = "hkdf" THEN ChainBase(chainKey[2]) ELSE chainKey

\* The session a peer holds when it shares the receiving chain of `state`, has
\* sent `counter` messages on it and names the session as the receiver does
PeerState(state, counter) ==
    [state EXCEPT !.sendingChainKey =
                        toBase64(Advance(ChainBase(fromBase64(state.receivingChainKey)),
                                         counter)),
                  !.sendingChainLength = counter,
                  !.senderRatchetPrivate =
                        toBase64(<<"priv", "x", fromBase64(state.receiverRatchetPublic)[3]>>),
                  !.senderRatchetPublic = state.receiverRatchetPublic,
                  !.receivingChainKey = Null]

\* the envelope ratchetEncrypt returns to that peer for its next message
PeerEnvelope(state, sessionId, counter, plaintext) ==
    ratchetEncrypt(PeerState(state, counter), sessionId, plaintext, "P", counter).envelope

\* an envelope changed in transit: a flipped bit in the ciphertext or the
\* nonce, another message counter, another sender ratchet key
Tampers == {"none", "ciphertext", "nonce", "counter", "ratchetKey"}

Tamper(envelope, t) ==
    CASE t = "none" -> envelope
      [] t = "ciphertext" ->
            [envelope EXCEPT !.ciphertext = toBase64(<<"flipped", fromBase64(@)>>)]
      [] t = "nonce" ->
            [envelope EXCEPT !.nonce = toBase64(<<"flipped", fromBase64(@)>>)]
      [] t = "counter" ->
            [envelope EXCEPT !.header.messageCounter = (@ + 1) % (MaxCounter + 1)]
      [] t = "ratchetKey" ->
            [envelope EXCEPT !.header.senderRatchetKey = Intruder.publicKey]

\* the envelopes other devices' ratchetEncrypt returned, as the transport
\* hands them to device d
Sent(d) ==
    {[src |-> "wire", plaintext |-> o.plaintext, tamper |-> "none",
      envelope |-> o.envelope] : o \in {x \in outbox : x.dev # d}}

\* what the responder answers the peer
Replies == {Str("hello")}

\* the k-th message of the peer
PeerPlaintext(k) == Str(<<"message", k + 1>>)

\* the envelopes of a peer on the receiving chain of the session sessionId of
\* device d, as sent or changed in transit
FromPeer(d, sessionId) ==
    LET state == getSessionState(d, sessionId)
    IN  IF state = NoState \/ state.receivingChainKey = Null THEN {}
        ELSE {[src |-> "peer", plaintext |-> PeerPlaintext(c), tamper |-> t,
               envelope |-> Tamper(PeerEnvelope(state, sessionId, c, PeerPlaintext(c)), t)]
                : c \in 0..MaxCounter, t \in Tampers}

\* ratchetDecrypt up to its await of saveSessionState, or up to its throw
DecryptStart(d, i, sessionId, msg) ==
    LET state == getSessionState(d, sessionId)
        r == ratchetDecrypt(state, sessionId, msg.envelope, d, fresh[d])
        status == IF state = NoState THEN "NoSession" ELSE r.status
    IN  /\ FreeSlot(d, i)
        /\ sessionId \in SessionIds(d)
        /\ state # NoState => fresh[d] + r.drawn <= MaxFresh
        /\ fresh' = IF status = "ok" THEN [fresh EXCEPT ![d] = @ + r.drawn] ELSE fresh
        /\ IF status = "ok"
           THEN /\ calls' = [calls EXCEPT ![d][i] =
                        [op |-> "ratchetDecrypt",
                         sessionId |-> sessionId, state |-> r.save,
                         ratchet |-> msg.envelope.header.senderRatchetKey
                                        # state.receiverRatchetPublic,
                         usedSkipped |-> r.usedSkipped,
                         sent |-> msg.plaintext, tamper |-> msg.tamper,
                         envelope |-> msg.envelope,
                         plaintext |-> r.plaintext]]
                /\ UNCHANGED <<lastRet, sessions>>
           ELSE /\ lastRet' = [op |-> "ratchetDecrypt", dev |-> d, status |-> status,
                               tamper |-> msg.tamper]
                /\ sessions' = IF state # NoState /\ r.save # NoState
                               THEN [sessions EXCEPT ![d] =
                                        saveSessionState(@, sessionId, r.save)]
                               ELSE sessions
                /\ UNCHANGED calls
        /\ UNCHANGED <<mqVars, delivered, sodiumStrict, secure, async, server, wire, outbox>>

\* await this.saveSessionState(sessionId, state) of either call, and the
\* return that follows it
SaveAndReturn(d, i) ==
    LET c == calls[d][i]
    IN  /\ c # Idle
        /\ sessions' = [sessions EXCEPT ![d] = saveSessionState(@, c.sessionId, c.state)]
        /\ calls' = [calls EXCEPT ![d][i] = Idle]
        /\ outbox' = IF c.op = "ratchetEncrypt"
                     THEN outbox \cup {[dev |-> d, sessionId |-> c.sessionId,
                                        envelope |-> c.envelope,
                                        plaintext |-> c.plaintext]}
                     ELSE outbox
        /\ delivered' = IF c.op = "ratchetDecrypt"
                        THEN delivered \cup {[dev |-> d, sessionId |-> c.sessionId,
                                              envelope |-> c.envelope]}
                        ELSE delivered
        /\ lastRet' = IF c.op = "ratchetEncrypt"
                      THEN [op |-> c.op, dev |-> d, status |-> "ok"]
                      ELSE [op |-> c.op, dev |-> d, status |-> "ok", tamper |-> c.tamper]
        /\ UNCHANGED <<mqVars, sodiumStrict, fresh, secure, async, server, wire>>

\* the process dies: suspended calls are gone, storage stays
Crash(d) ==
    /\ \E i \in Slots : calls[d][i] # Idle
    /\ calls' = [calls EXCEPT ![d] = [i \in Slots |-> Idle]]
    /\ UNCHANGED <<mqVars, delivered, sodiumStrict, fresh, secure, async, sessions, server, wire, outbox,
                   lastRet>>

\* bundles other devices have published, as the key server returns them
Published(d) == {server[e] : e \in {x \in Devices \ {d} : server[x] # NoBundle}}

\* Every device generates and uploads its bundle once, after login; a session
\* is initiated and accepted once per peer, from the bundle as published; the devices
\* exchange the envelopes their ratchetEncrypt returns; calls run concurrently.
Next ==
    \/ \E d \in Devices :
            /\ server[d] = NoBundle
            /\ GeneratePrekeyBundle(d, IF d \in Responders THEN MaxOtp ELSE 0)
    \/ \E d \in Initiators : \E b \in Published(d) :
            /\ slice16(b.identityKey) \notin DOMAIN sessions[d]
            /\ InitiateSession(d, b)
    \/ \E d \in Responders, w \in wire :
            /\ slice16(w.header.identityKey) \notin DOMAIN sessions[d]
            /\ AcceptSession(d, w)
    \/ \E d \in Devices, i \in Slots :
            /\ FreeSlot(d, i)
            /\ \E sid \in SessionIds(d), p \in Plaintexts : EncryptStart(d, i, sid, p)
    \/ \E d \in Devices, i \in Slots :
            /\ FreeSlot(d, i)
            /\ \E sid \in SessionIds(d) :
                    \E msg \in Sent(d) : DecryptStart(d, i, sid, msg)
    \/ \E d \in Devices, i \in Slots : SaveAndReturn(d, i)
    \/ \E d \in Devices : Crash(d)

Spec == Init /\ [][Next]_vars

\* The responder talks to a peer that shares its receiving chain: the peer's
\* envelopes arrive in any order, any number of times, as sent or changed.
NextPeer ==
    \/ \E d \in Devices :
            /\ server[d] = NoBundle
            /\ GeneratePrekeyBundle(d, IF d \in Responders THEN MaxOtp ELSE 0)
    \/ \E d \in Initiators : \E b \in Published(d) :
            /\ slice16(b.identityKey) \notin DOMAIN sessions[d]
            /\ InitiateSession(d, b)
    \/ \E d \in Responders, w \in wire :
            /\ slice16(w.header.identityKey) \notin DOMAIN sessions[d]
            /\ AcceptSession(d, w)
    \/ \E d \in Responders, i \in Slots :
            /\ FreeSlot(d, i)
            /\ \E sid \in SessionIds(d), p \in Replies : EncryptStart(d, i, sid, p)
    \/ \E d \in Responders, i \in Slots :
            /\ FreeSlot(d, i)
            /\ \E sid \in SessionIds(d) :
                    \E msg \in FromPeer(d, sid) : DecryptStart(d, i, sid, msg)
    \/ \E d \in Devices, i \in Slots : SaveAndReturn(d, i)
    \/ \E d \in Devices : Crash(d)

SpecPeer == Init /\ [][NextPeer]_vars

\* Key bundles are generated repeatedly and reach the initiator as published,
\* without one-time prekey, or altered in transit; no messages are exchanged.
NextX3DH ==
    \/ \E d \in Devices, count \in 0..MaxOtp : GeneratePrekeyBundle(d, count)
    \/ \E d \in Initiators : \E b \in FetchedBundles(d) : InitiateSession(d, b)
    \/ \E d \in Responders, w \in wire : AcceptSession(d, w)

SpecX3DH == Init /\ [][NextX3DH]_vars

\* --------------------------------------------- the handshake, step by step
\* SignalProtocol.deleteSession
deleteSession(store, sessionId) ==
    [s \in DOMAIN store \ {sessionId} |-> store[s]]

\* initSession(peerUserId) from the fetch of the bundle to the await of
\* saveSessionState inside initiateSession
InitSessionStart(d, i, peer) ==
    LET bundle == server[peer]
        r == initiateSession(bundle, getPrivateKey(d, <<"identity_private">>),
                             async[d].identity_public, d, fresh[d])
        status == IF bundle = NoBundle THEN "NoBundle" ELSE r.status
    IN  /\ FreeSlot(d, i)
        /\ peer \in Devices \ {d}
        /\ bundle # NoBundle => fresh[d] + r.keys <= MaxFresh
        /\ IF status = "ok"
           THEN /\ calls' = [calls EXCEPT ![d][i] =
                        [op |-> "initSession", stage |-> "save", peer |-> peer,
                         sessionId |-> r.sessionId, state |-> r.sessionState]]
                /\ fresh' = [fresh EXCEPT ![d] = @ + r.keys]
                /\ UNCHANGED lastRet
           ELSE /\ lastRet' = [op |-> "initSession", dev |-> d, status |-> status]
                /\ UNCHANGED <<calls, fresh>>
        /\ UNCHANGED <<mqVars, delivered, sodiumStrict, secure, async, sessions, server, wire, outbox>>

\* await this.saveSessionState(sessionId, sessionState) of initiateSession and
\* its return to initSession
InitiateSave(d, i) ==
    LET c == calls[d][i]
    IN  /\ c # Idle
        /\ c.op = "initSession"
        /\ c.stage = "save"
        /\ sessions' = [sessions EXCEPT ![d] = saveSessionState(@, c.sessionId, c.state)]
        /\ calls' = [calls EXCEPT ![d][i].stage = "resave"]
        /\ UNCHANGED <<mqVars, delivered, sodiumStrict, fresh, secure, async, server, wire, outbox, lastRet>>

\* initSession: the state is read back under the temporary id and saved under
\* the user id of the peer
InitSessionResave(d, i) ==
    LET c == calls[d][i]
        tempState == getSessionState(d, c.sessionId)
    IN  /\ c # Idle
        /\ c.op = "initSession"
        /\ c.stage = "resave"
        /\ sessions' = IF tempState # NoState
                       THEN [sessions EXCEPT ![d] =
                                saveSessionState(@, UserId(c.peer), tempState)]
                       ELSE sessions
        /\ calls' = [calls EXCEPT ![d][i].stage =
                        IF tempState # NoState THEN "delete" ELSE "return"]
        /\ UNCHANGED <<mqVars, delivered, sodiumStrict, fresh, secure, async, server, wire, outbox, lastRet>>

\* initSession: the temporary entry is deleted, if one was found, and the call
\* returns the user id
InitSessionReturn(d, i) ==
    LET c == calls[d][i]
    IN  /\ c # Idle
        /\ c.op = "initSession"
        /\ c.stage \in {"delete", "return"}
        /\ sessions' = IF c.stage = "delete"
                       THEN [sessions EXCEPT ![d] = deleteSession(@, c.sessionId)]
                       ELSE sessions
        /\ calls' = [calls EXCEPT ![d][i] = Idle]
        /\ lastRet' = [op |-> "initSession", dev |-> d, status |-> "ok"]
        /\ UNCHANGED <<mqVars, delivered, sodiumStrict, fresh, secure, async, server, wire, outbox>>

\* acceptSession up to its await of deletePrivateKey: the identity key, the
\* current signed prekey and the one-time prekey named in the header are read
AcceptStart(d, i, w) ==
    LET r == acceptSession(w.header, secure[d], async[d].current_signed_prekey_id)
        otpId == <<"otp", w.header.usedOneTimePrekey>>
        read == w.header.usedOneTimePrekey # Null /\ Has(secure[d], otpId)
    IN  /\ FreeSlot(d, i)
        /\ w \in wire
        /\ IF r.status = "SignedPrekeyNotFound"
           THEN /\ lastRet' = [op |-> "acceptSession", dev |-> d, status |-> r.status,
                               dh |-> r.dh]
                /\ UNCHANGED calls
           ELSE /\ calls' = [calls EXCEPT ![d][i] =
                        [op |-> "acceptSession", stage |-> "read",
                         header |-> w.header,
                         otp |-> IF read THEN otpId ELSE Null,
                         result |-> [r EXCEPT !.store = {}]]]
                /\ UNCHANGED lastRet
        /\ UNCHANGED <<mqVars, delivered, sodiumStrict, fresh, secure, async, sessions, server, wire, outbox>>

\* acceptSession from deletePrivateKey through the Diffie-Hellman computations
\* to its await of saveSessionState, or to the throw of performDH
AcceptDerive(d, i) ==
    LET c == calls[d][i]
    IN  /\ c # Idle
        /\ c.op = "acceptSession"
        /\ c.stage = "read"
        /\ secure' = IF c.otp # Null THEN [secure EXCEPT ![d] = Del(@, c.otp)]
                     ELSE secure
        /\ IF c.result.status = "ok"
           THEN /\ calls' = [calls EXCEPT ![d][i].stage = "save"]
                /\ UNCHANGED lastRet
           ELSE /\ calls' = [calls EXCEPT ![d][i] = Idle]
                /\ lastRet' = [op |-> "acceptSession", dev |-> d,
                               status |-> c.result.status, dh |-> c.result.dh]
        /\ UNCHANGED <<mqVars, delivered, sodiumStrict, fresh, async, sessions, server, wire, outbox>>

\* await this.saveSessionState(sessionId, sessionState) of acceptSession and
\* its return
AcceptSave(d, i) ==
    LET c == calls[d][i]
    IN  /\ c # Idle
        /\ c.op = "acceptSession"
        /\ c.stage = "save"
        /\ sessions' = [sessions EXCEPT ![d] =
                            saveSessionState(@, c.result.sessionId, c.result.sessionState)]
        /\ calls' = [calls EXCEPT ![d][i] = Idle]
        /\ lastRet' = [op |-> "acceptSession", dev |-> d, status |-> "ok",
                       dh |-> c.result.dh]
        /\ UNCHANGED <<mqVars, delivered, sodiumStrict, fresh, secure, async, server, wire, outbox>>

\* Every device uploads its bundle once. Sessions are initiated with
\* initiateSession, whose header reaches the responder, or with initSession;
\* the calls of a device run concurrently and the process may die at any await.
NextSession ==
    \/ \E d \in Devices :
            /\ server[d] = NoBundle
            /\ GeneratePrekeyBundle(d, IF d \in Responders THEN MaxOtp ELSE 0)
    \/ \E d \in Initiators : \E b \in Published(d) : InitiateSession(d, b)
    \/ \E d \in Initiators, i \in Slots : \E peer \in Devices \ {d} :
            InitSessionStart(d, i, peer)
    \/ \E d \in Initiators, i \in Slots : InitiateSave(d, i)
    \/ \E d \in Initiators, i \in Slots : InitSessionResave(d, i)
    \/ \E d \in Initiators, i \in Slots : InitSessionReturn(d, i)
    \/ \E d \in Responders, i \in Slots : \E w \in wire : AcceptStart(d, i, w)
    \/ \E d \in Responders, i \in Slots : AcceptDerive(d, i)
    \/ \E d \in Responders, i \in Slots : AcceptSave(d, i)
    \/ \E d \in Devices : Crash(d)

SpecSession == Init /\ [][NextSession]_vars

\* The responder of SpecPeer when it publishes no one-time prekeys
\* (generatePrekeyBundle with count 0) and the peer's envelopes arrive as
\* sent: the handshake is the 3-DH one and the responder has random values
\* left for two ratchet key pairs.
NextResponder ==
    \/ \E d \in Devices :
            /\ server[d] = NoBundle
            /\ GeneratePrekeyBundle(d, 0)
    \/ \E d \in Initiators : \E b \in Published(d) :
            /\ slice16(b.identityKey) \notin DOMAIN sessions[d]
            /\ InitiateSession(d, b)
    \/ \E d \in Responders, w \in wire :
            /\ slice16(w.header.identityKey) \notin DOMAIN sessions[d]
            /\ AcceptSession(d, w)
    \/ \E d \in Responders, i \in Slots :
            /\ FreeSlot(d, i)
            /\ \E sid \in SessionIds(d), p \in Replies : EncryptStart(d, i, sid, p)
    \/ \E d \in Responders, i \in Slots :
            /\ FreeSlot(d, i)
            /\ \E sid \in SessionIds(d) :
                    \E msg \in {m \in FromPeer(d, sid) : m.tamper = "none"} :
                        DecryptStart(d, i, sid, msg)
    \/ \E d \in Devices, i \in Slots : SaveAndReturn(d, i)
    \/ \E d \in Devices : Crash(d)

SpecResponder == Init /\ [][NextResponder]_vars

\* ------------------------------------------------- files (mediaEncryption.js)
\* the bytes of the file a peer sends
FileBytes == <<"bytes", "photo">>

\* a base64 text as the string ratchetEncrypt is given and should give back
IsBase64String(s) == s[1] = "str" /\ s[2][1] = "b64"

\* MediaEncryption.encryptFile on the peer, for its message number counter: a
\* fresh file key seals the file, the session's ratchet seals the file key
PeerFile(state, sessionId, counter) ==
    LET fileKey == <<"key", <<"P", "fileKey", counter>>>>
        fileNonce == <<"nonce", <<"P", "fileNonce", counter>>>>
        encryptedBlob == encryptAEAD(FileBytes, fileKey, fileNonce, Null)
    IN  [encryptedBlob |-> toBase64(encryptedBlob),
         fileNonce |-> toBase64(fileNonce),
         encryptedFileKey |-> PeerEnvelope(state, sessionId, counter,
                                           Str(toBase64(fileKey)))]

\* what reaches device d: the file as sent, with a corrupted blob, or with a
\* changed file-key envelope
FileDamages == {"none", "blob", "envelope"}

FilesFromPeer(d, sessionId) ==
    LET state == getSessionState(d, sessionId)
    IN  IF state = NoState \/ state.receivingChainKey = Null THEN {}
        ELSE {[damage |-> g,
               encryptedBlob |->
                    IF g = "blob"
                    THEN toBase64(<<"flipped",
                                    fromBase64(PeerFile(state, sessionId, c).encryptedBlob)>>)
                    ELSE PeerFile(state, sessionId, c).encryptedBlob,
               fileNonce |-> PeerFile(state, sessionId, c).fileNonce,
               encryptedFileKey |->
                    Tamper(PeerFile(state, sessionId, c).encryptedFileKey,
                           IF g = "envelope" THEN "ciphertext" ELSE "none")]
                : c \in 0..MaxCounter, g \in FileDamages}

\* a decryptFile that hands back what it has when the blob does not verify
decryptFile_partial(fileKeyB64, encryptedBlobB64, fileNonceB64) ==
    LET bytes == IF IsBase64String(fileKeyB64)
                 THEN decryptAEAD(fromBase64(encryptedBlobB64),
                                  fromBase64(fromBase64(fileKeyB64)),
                                  fromBase64(fileNonceB64), Null)
                 ELSE Null
    IN  [status |-> "ok",
         bytes |-> IF bytes = Null THEN fromBase64(encryptedBlobB64) ELSE bytes]

\* MediaEncryption.decryptFile after ratchetDecrypt has returned fileKeyB64.
\* from_base64 of a text that is not base64 throws, or yields bytes that are
\* not the file key, with which the AEAD check fails: an error either way.
decryptFile(fileKeyB64, encryptedBlobB64, fileNonceB64) ==
    LET bytes == IF IsBase64String(fileKeyB64)
                 THEN decryptAEAD(fromBase64(encryptedBlobB64),
                                  fromBase64(fromBase64(fileKeyB64)),
                                  fromBase64(fileNonceB64), Null)
                 ELSE Null
    IN  IF bytes = Null
        THEN [status |-> "DecryptionFailed", bytes |-> Null]
        ELSE [status |-> "ok", bytes |-> bytes]

\* decryptFile up to ratchetDecrypt's await of saveSessionState, or its throw
DecryptFileStart(d, i, sessionId, file) ==
    LET state == getSessionState(d, sessionId)
        r == ratchetDecrypt(state, sessionId, file.encryptedFileKey, d, fresh[d])
        status == IF state = NoState THEN "NoSession" ELSE r.status
    IN  /\ FreeSlot(d, i)
        /\ sessionId \in SessionIds(d)
        /\ state # NoState => fresh[d] + r.drawn <= MaxFresh
        /\ fresh' = IF status = "ok" THEN [fresh EXCEPT ![d] = @ + r.drawn] ELSE fresh
        /\ IF status = "ok"
           THEN /\ calls' = [calls EXCEPT ![d][i] =
                        [op |-> "decryptFile", stage |-> "save",
                         sessionId |-> sessionId, loaded |-> state,
                         state |-> r.save, file |-> file,
                         fileKeyB64 |-> r.plaintext]]
                /\ UNCHANGED <<lastRet, sessions>>
           ELSE /\ lastRet' = [op |-> "decryptFile", dev |-> d, status |-> status,
                               stage |-> "fileKey", damage |-> file.damage,
                               bytes |-> Null]
                /\ sessions' = IF state # NoState /\ r.save # NoState
                               THEN [sessions EXCEPT ![d] =
                                        saveSessionState(@, sessionId, r.save)]
                               ELSE sessions
                /\ UNCHANGED calls
        /\ UNCHANGED <<mqVars, delivered, sodiumStrict, secure, async, server, wire, outbox>>

\* ratchetDecrypt's await this.saveSessionState(sessionId, state) and its
\* return into decryptFile, which goes on to await decryptAEAD
DecryptFileSave(d, i) ==
    LET c == calls[d][i]
    IN  /\ c # Idle
        /\ c.op = "decryptFile"
        /\ c.stage = "save"
        /\ sessions' = [sessions EXCEPT ![d] = saveSessionState(@, c.sessionId, c.state)]
        /\ delivered' = delivered \cup {[dev |-> d, sessionId |-> c.sessionId,
                                         envelope |-> c.file.encryptedFileKey]}
        /\ calls' = [calls EXCEPT ![d][i].stage = "blob"]
        /\ UNCHANGED <<mqVars, sodiumStrict, fresh, secure, async, server, wire, outbox, lastRet>>

\* fromBase64 of the file key, decryptAEAD of the blob, and the return or throw
DecryptFileReturn(d, i) ==
    LET c == calls[d][i]
        r == decryptFile(c.fileKeyB64, c.file.encryptedBlob, c.file.fileNonce)
    IN  /\ c # Idle
        /\ c.op = "decryptFile"
        /\ c.stage = "blob"
        /\ calls' = [calls EXCEPT ![d][i] = Idle]
        /\ lastRet' = [op |-> "decryptFile", dev |-> d, status |-> r.status,
                       stage |-> "blob", damage |-> c.file.damage,
                       bytes |-> r.bytes]
        /\ UNCHANGED <<mqVars, delivered, sodiumStrict, fresh, secure, async, sessions, server, wire,
                       outbox>>

\* The responder receives files from a peer that follows the protocol.
NextMedia ==
    \/ \E d \in Devices :
            /\ server[d] = NoBundle
            /\ GeneratePrekeyBundle(d, IF d \in Responders THEN MaxOtp ELSE 0)
    \/ \E d \in Initiators : \E b \in Published(d) :
            /\ slice16(b.identityKey) \notin DOMAIN sessions[d]
            /\ InitiateSession(d, b)
    \/ \E d \in Responders, w \in wire :
            /\ slice16(w.header.identityKey) \notin DOMAIN sessions[d]
            /\ AcceptSession(d, w)
    \/ \E d \in Responders, i \in Slots :
            /\ FreeSlot(d, i)
            /\ \E sid \in SessionIds(d) :
                    \E file \in FilesFromPeer(d, sid) : DecryptFileStart(d, i, sid, file)
    \/ \E d \in Responders, i \in Slots : DecryptFileSave(d, i)
    \/ \E d \in Responders, i \in Slots : DecryptFileReturn(d, i)
    \/ \E d \in Devices : Crash(d)

SpecMedia == Init /\ [][NextMedia]_vars

\* ------------------------------------------------ MessageQueue (messageQueue.js)
\* The queue runs on the initiator and sends to the responder; sendMessage
\* names the session by the receiver's user id.
Sender == "A"

receiverId == UserId("B")

\* the text typed for the k-th message
TextOf(k) == Str(<<"text", k>>)

\* the retries a message may reach before it is given up
MaxRetries == 5

\* the queue's state as processQueue reads and writes it between two awaits
QueueState == [msgs |-> msgs, queue |-> queue, listeners |-> listeners,
               notified |-> notified, attempts |-> attempts,
               pc |-> "none", id |-> 0]

\* MessageQueue.notifyListeners(messageId, status)
notifyListeners(q, messageId, status) ==
    IF messageId \in q.listeners
    THEN [q EXCEPT !.notified = Append(@, <<messageId, status>>),
                   !.listeners = @ \ {messageId}]
    ELSE q

\* this.queue.shift()
shift(q) == [q EXCEPT !.queue = Tail(@)]

\* processQueue when it skips the test of this.processing
processQueueRuns_unguarded(isProcessing, q) == Len(q) > 0

\* processQueue when the queue is tested before the message is pushed
processQueueRuns_beforePush(isProcessing, q) == ~isProcessing /\ Len(q) > 1

\* processQueue goes past its first line
processQueueRuns(isProcessing, q) == ~(isProcessing \/ Len(q) = 0)

\* a retry test that lets a message reach one more attempt
shouldRetry_inclusive(retries) == retries <= MaxRetries

\* if (message.retries < 5)
shouldRetry(retries) == retries < MaxRetries

RECURSIVE nextIteration(_, _)
RECURSIVE failed(_, _, _)
\* processQueue from its while test to its next await or to its end, and the
\* start of sendMessage in it. With the socket disconnected sendMessage throws
\* at once; the loop goes on in the same turn of the event loop.
nextIteration(q, isConnected) ==
    IF Len(q.queue) = 0
    THEN [q EXCEPT !.pc = "none", !.id = 0]
    ELSE LET message == Head(q.queue)
             q1 == [q EXCEPT !.attempts[message] = @ + 1]
         IN  IF isConnected
             THEN [q1 EXCEPT !.pc = "ensure", !.id = message]
             ELSE failed(q1, message, isConnected)

\* the catch branch of processQueue for the message object `message`
failed(q, message, isConnected) ==
    LET q1 == [q EXCEPT !.msgs[message].retries = @ + 1]
    IN  IF shouldRetry(q1.msgs[message].retries)
        THEN [q1 EXCEPT !.pc = "delay", !.id = message]
        ELSE nextIteration(notifyListeners(shift(q1), message, "failed"), isConnected)

\* the try branch of processQueue after sendMessage has resolved
sent(q, message, isConnected) ==
    nextIteration(notifyListeners(shift(q), message, "sent"), isConnected)

\* processQueue(), called by enqueue and retryAll on the queue state q
processQueue(q, l) ==
    IF processQueueRuns(processing, q.queue) /\ loops[l] = NoLoop
    THEN LET r == nextIteration(q, connected)
         IN  [q |-> r, processing |-> r.pc # "none",
              loops |-> [loops EXCEPT ![l] = [pc |-> r.pc, id |-> r.id]]]
    ELSE [q |-> q, processing |-> processing, loops |-> loops]

\* the first processQueue slot that is free
FreeLoop(l) ==
    /\ \A k \in Loops : k < l => loops[k] # NoLoop
    /\ (loops[l] = NoLoop \/ l = MaxLoops)

\* the queue state a step of the loop l leaves
Resume(l, r) ==
    /\ msgs' = r.msgs
    /\ queue' = r.queue
    /\ listeners' = r.listeners
    /\ notified' = r.notified
    /\ attempts' = r.attempts
    /\ loops' = [loops EXCEPT ![l] = [pc |-> r.pc, id |-> r.id]]
    /\ processing' = IF r.pc = "none" THEN FALSE ELSE processing

\* ChatContext.sendMessage: messageQueue.enqueue(tempMessage), then
\* messageQueue.onStatusChange(tempMessage._id, callback)
Enqueue ==
    LET id == Len(msgs) + 1
        q == [QueueState EXCEPT
                !.msgs = Append(@, [text |-> TextOf(id), retries |-> 0]),
                !.attempts = Append(@, 0),
                !.queue = Append(@, id)]
    IN  /\ Len(msgs) < MaxMsgs
        /\ \E l \in Loops :
            /\ FreeLoop(l)
            /\ LET p == processQueue(q, l)
               IN  /\ msgs' = p.q.msgs
                   /\ queue' = p.q.queue
                   /\ notified' = p.q.notified
                   /\ attempts' = p.q.attempts
                   /\ listeners' = p.q.listeners \cup {id}
                   /\ loops' = p.loops
                   /\ processing' = p.processing
        /\ UNCHANGED <<emitted, connected, retryAlls, delivered, sodiumStrict, fresh,
                       secure, async, sessions, server, wire, calls, outbox, lastRet>>

\* MessageQueue.retryAll()
retryAll(q) ==
    [q EXCEPT !.msgs = [k \in DOMAIN q.msgs |->
                            IF \E n \in DOMAIN q.queue : q.queue[n] = k
                            THEN [q.msgs[k] EXCEPT !.retries = 0]
                            ELSE q.msgs[k]]]

\* the socket's 'connect' event and ChatContext's connection_status handler:
\* retryAll() when messages are pending
SocketConnect ==
    /\ ~connected
    /\ connected' = TRUE
    /\ IF Len(queue) > 0
       THEN /\ retryAlls < MaxRetryAll
            /\ retryAlls' = retryAlls + 1
            /\ \E l \in Loops :
                /\ FreeLoop(l)
                /\ LET p == processQueue(retryAll(QueueState), l)
                   IN  /\ msgs' = p.q.msgs
                       /\ queue' = p.q.queue
                       /\ notified' = p.q.notified
                       /\ attempts' = p.q.attempts
                       /\ listeners' = p.q.listeners
                       /\ loops' = p.loops
                       /\ processing' = p.processing
       ELSE UNCHANGED <<msgs, queue, notified, attempts, listeners, loops, processing,
                        retryAlls>>
    /\ UNCHANGED <<emitted, delivered, sodiumStrict, fresh, secure, async, sessions,
                   server, wire, calls, outbox, lastRet>>

\* the socket's 'disconnect' event
SocketDisconnect ==
    /\ connected
    /\ connected' = FALSE
    /\ UNCHANGED <<msgs, queue, processing, loops, listeners, notified, attempts,
                   emitted, retryAlls, delivered, sodiumStrict, fresh, secure, async,
                   sessions, server, wire, calls, outbox, lastRet>>

\* await signalProtocol.ensureSession(receiverId) settles: the session is
\* there or has been set up, or the setup failed
EnsureSession(l, resolved) ==
    /\ loops[l].pc = "ensure"
    /\ IF resolved
       THEN /\ loops' = [loops EXCEPT ![l].pc = "encrypt"]
            /\ UNCHANGED <<msgs, queue, processing, listeners, notified, attempts>>
       ELSE Resume(l, failed(QueueState, loops[l].id, connected))
    /\ UNCHANGED <<emitted, connected, retryAlls, delivered, sodiumStrict, fresh,
                   secure, async, sessions, server, wire, calls, outbox, lastRet>>

\* a messageData that carries the typed text
messageData_plaintext(id, message, encrypted) ==
    [receiverId |-> receiverId,
     encryptedText |-> message.text,
     ratchetHeader |-> encrypted.header,
     nonce |-> encrypted.nonce,
     messageType |-> "text",
     clientMessageId |-> id]

\* the messageData of sendMessage
messageData(id, message, encrypted) ==
    [receiverId |-> receiverId,
     encryptedText |-> encrypted.ciphertext,
     ratchetHeader |-> encrypted.header,
     nonce |-> encrypted.nonce,
     messageType |-> "text",
     clientMessageId |-> id]

\* await signalProtocol.ratchetEncrypt(receiverId, text) settles. When it
\* returns, sendMessage hands the event to the socket and waits for the
\* acknowledgement; when it throws (no session, no sending chain, or the
\* storage fails) the attempt has failed.
SendEncrypted(l, storageFails) ==
    LET id == loops[l].id
        state == getSessionState(Sender, receiverId)
        r == ratchetEncrypt(state, receiverId, msgs[id].text, Sender, fresh[Sender])
        ok == ~storageFails /\ state # NoState /\ r.status = "ok"
    IN  /\ loops[l].pc = "encrypt"
        /\ ok => /\ state.sendingChainLength <= MaxCounter
                 /\ fresh[Sender] + r.drawn <= MaxFresh
        /\ IF ok
           THEN /\ sessions' = [sessions EXCEPT ![Sender] =
                                    saveSessionState(@, receiverId, r.state)]
                /\ fresh' = [fresh EXCEPT ![Sender] = @ + r.drawn]
                /\ outbox' = outbox \cup {[dev |-> Sender, sessionId |-> receiverId,
                                           envelope |-> r.envelope,
                                           plaintext |-> msgs[id].text]}
                /\ emitted' = emitted \cup {messageData(id, msgs[id], r.envelope)}
                /\ loops' = [loops EXCEPT ![l].pc = "ack"]
                /\ UNCHANGED <<msgs, queue, processing, listeners, notified, attempts>>
           ELSE /\ Resume(l, failed(QueueState, id, connected))
                /\ UNCHANGED <<sessions, fresh, outbox, emitted>>
        /\ UNCHANGED <<connected, retryAlls, delivered, sodiumStrict, secure, async,
                       server, wire, calls, lastRet>>

\* the server's acknowledgement arrives, with or without an error, or the
\* 30 s timer fires first
Acknowledged(l, response) ==
    /\ loops[l].pc = "ack"
    /\ response \in {"ok", "error", "timeout"}
    /\ IF response = "ok"
       THEN Resume(l, sent(QueueState, loops[l].id, connected))
       ELSE Resume(l, failed(QueueState, loops[l].id, connected))
    /\ UNCHANGED <<emitted, connected, retryAlls, delivered, sodiumStrict, fresh,
                   secure, async, sessions, server, wire, calls, outbox, lastRet>>

\* await this.delay(2000) is over
Delayed(l) ==
    /\ loops[l].pc = "delay"
    /\ Resume(l, nextIteration(QueueState, connected))
    /\ UNCHANGED <<emitted, connected, retryAlls, delivered, sodiumStrict, fresh,
                   secure, async, sessions, server, wire, calls, outbox, lastRet>>

\* The sender opens the chat (initSession) and types messages while the
\* socket connects and disconnects. The statement after the loop
\* (setTimeout when the queue is not empty) cannot run: the loop ends on an
\* empty queue and nothing is pushed before the test.
NextQueue ==
    \/ \E d \in Devices :
            /\ server[d] = NoBundle
            /\ GeneratePrekeyBundle(d, IF d \in Responders THEN MaxOtp ELSE 0)
    \/ \E i \in Slots :
            /\ receiverId \notin DOMAIN sessions[Sender]
            /\ InitSessionStart(Sender, i, "B")
    \/ \E i \in Slots : InitiateSave(Sender, i)
    \/ \E i \in Slots : InitSessionResave(Sender, i)
    \/ \E i \in Slots : InitSessionReturn(Sender, i)
    \/ Enqueue
    \/ SocketConnect
    \/ SocketDisconnect
    \/ \E l \in Loops, resolved \in BOOLEAN : EnsureSession(l, resolved)
    \/ \E l \in Loops, storageFails \in BOOLEAN : SendEncrypted(l, storageFails)
    \/ \E l \in Loops, response \in {"ok", "error", "timeout"} : Acknowledged(l, response)
    \/ \E l \in Loops : Delayed(l)

SpecQueue == Init /\ [][NextQueue]_vars

\* Every await of the loop settles: ensureSession and ratchetEncrypt return or
\* throw, the acknowledgement or the 30 s timer arrives, the delay timer fires.
SpecQueueFair ==
    /\ SpecQueue
    /\ WF_vars(\E l \in Loops, resolved \in BOOLEAN : EnsureSession(l, resolved))
    /\ WF_vars(\E l \in Loops, storageFails \in BOOLEAN : SendEncrypted(l, storageFails))
    /\ WF_vars(\E l \in Loops, response \in {"ok", "error", "timeout"} :
                    Acknowledged(l, response))
    /\ WF_vars(\E l \in Loops : Delayed(l))

\* ------------------------------------------------------------ properties
\* C9 Bundle integrity: when initiateSession is given a bundle whose signed
\* prekey signature does not verify against its identity key, it ends with the
\* invalid-signature error, has made no Diffie-Hellman computation, has drawn
\* no key pair, and leaves the session store and the transport untouched.
BundleIntegrity ==
    [][\A d \in Initiators : \A b \in FetchedBundles(d) :
          (/\ InitiateSession(d, b)
           /\ ~verify(b.signedPrekey.publicKey, b.signedPrekey.signature, b.identityKey))
          => /\ lastRet'.op = "initiateSession"
             /\ lastRet'.status = "InvalidSignature"
             /\ lastRet'.dh = 0
             /\ fresh' = fresh
             /\ sessions' = sessions
             /\ wire' = wire]_vars

\* an initiateSession on a forged bundle has failed and the device holds no
\* session
BundleRejected ==
    /\ lastRet.op = "initiateSession"
    /\ lastRet.status = "InvalidSignature"
    /\ sessions[lastRet.dev] = <<>>
    /\ fresh[lastRet.dev] > 0

\* C10 X3DH agreement: when the responder holds the signed prekey and the
\* one-time prekey the initiator used, the session acceptSession stores has the
\* initiator's root key, and its receiving chain is the initiator's sending
\* chain.
X3DHAgreement ==
    [][\A d \in Responders : \A w \in wire :
          (/\ AcceptSession(d, w)
           /\ Has(secure[d], <<"signed_prekey", w.signedPrekeyId>>)
           /\ w.header.usedOneTimePrekey # Null
                => Has(secure[d], <<"otp", w.header.usedOneTimePrekey>>))
          => LET sessionId == slice16(w.header.identityKey)
             IN  /\ sessionId \in DOMAIN sessions'[d]
                 /\ sessions'[d][sessionId].rootKey = w.rootKey
                 /\ sessions'[d][sessionId].receivingChainKey = w.sendingChainKey]_vars

\* no other call of device d is suspended
Alone(d) == \A j \in Slots : calls[d][j] = Idle

\* C1 Round trip: when the responder, with no other call under way, decrypts
\* on a session it accepted the next envelope the initiator's ratchetEncrypt
\* returned, the call gets to its return with the plaintext that was encrypted.
RoundTrip ==
    [][\A d \in Responders, i \in Slots : \A sid \in DOMAIN sessions[d] :
          \A msg \in Sent(d) :
            (/\ DecryptStart(d, i, sid, msg)
             /\ Alone(d)
             /\ msg.envelope.header.messageCounter = sessions[d][sid].receivingChainLength)
            => /\ calls'[d][i] # Idle
               /\ calls'[d][i].plaintext = msg.plaintext]_vars

\* C2 In-order delivery: when the receiver, with no other call under way,
\* decrypts the peer's next message in send order, the call gets to its return
\* with the plaintext the peer encrypted and with receivingChainLength one
\* higher than before.
InOrderDelivery ==
    [][\A d \in Responders, i \in Slots : \A sid \in DOMAIN sessions[d] :
          \A msg \in FromPeer(d, sid) :
            (/\ DecryptStart(d, i, sid, msg)
             /\ Alone(d)
             /\ msg.tamper = "none"
             /\ msg.envelope.header.messageCounter = sessions[d][sid].receivingChainLength)
            => /\ calls'[d][i] # Idle
               /\ calls'[d][i].plaintext = msg.plaintext
               /\ calls'[d][i].state.receivingChainLength =
                        sessions[d][sid].receivingChainLength + 1]_vars

\* the chain key under which the envelope was sealed, before any advance
SendingChainOf(envelope) == ChainBase(fromBase64(envelope.ciphertext)[2][2])

\* C3 Ratchet step on direction change: for every envelope a device's
\* ratchetEncrypt returned whose senderRatchetKey differs from the
\* receiverRatchetPublic the other device stores, the DH-ratchet step of that
\* device sets receivingChainLength to 0 and derives as receiving chain the
\* chain the envelope was sent on.
RatchetStepAgrees ==
    \A o \in outbox : \A d \in Devices \ {o.dev} : \A sid \in DOMAIN sessions[d] :
        LET state == sessions[d][sid]
            key == o.envelope.header.senderRatchetKey
            stepped == performDHRatchet(state, key, Rnd(d, fresh[d] + 1))
        IN  key # state.receiverRatchetPublic
            => /\ stepped.receivingChainLength = 0
               /\ fromBase64(stepped.receivingChainKey) = SendingChainOf(o.envelope)

\* C4 Out-of-order delivery: when the receiver, with no other call under way
\* and having decrypted at least the first message of the chain, is handed a
\* message of the peer that is ahead of receivingChainLength, ratchetDecrypt
\* gets to its return with the plaintext the peer encrypted.
OutOfOrderDelivery ==
    [][\A d \in Responders, i \in Slots : \A sid \in DOMAIN sessions[d] :
          \A msg \in FromPeer(d, sid) :
            (/\ DecryptStart(d, i, sid, msg)
             /\ Alone(d)
             /\ msg.tamper = "none"
             /\ sessions[d][sid].receivingChainLength >= 1
             /\ msg.envelope.header.messageCounter > sessions[d][sid].receivingChainLength)
            => calls'[d][i] # Idle]_vars

\* C5 Tamper detection: no ratchetDecrypt of an envelope whose ciphertext,
\* nonce, message counter or sender ratchet key was changed in transit gets to
\* its return, and every such call ends with the authentication failure.
TamperDetection ==
    /\ \A d \in Devices, i \in Slots :
            (calls[d][i] # Idle /\ calls[d][i].op = "ratchetDecrypt")
            => calls[d][i].tamper = "none"
    /\ (lastRet.op = "ratchetDecrypt" /\ lastRet.tamper # "none")
            => lastRet.status = "AuthenticationFailure"

\* an envelope of the peer with a flipped bit or another counter was refused
\* on a session that has decrypted messages of the peer
TamperRefused ==
    /\ lastRet.op = "ratchetDecrypt"
    /\ lastRet.status = "AuthenticationFailure"
    /\ lastRet.tamper \in {"ciphertext", "nonce", "counter"}
    /\ \E sid \in DOMAIN sessions[lastRet.dev] :
            sessions[lastRet.dev][sid].receivingChainLength > 0

\* C6 Failed decrypt keeps the state: a step in which a ratchetDecrypt ends
\* with the authentication failure, no call being started or completed,
\* leaves every persisted SessionState as it was.
FailedDecryptKeepsState ==
    [][(/\ lastRet'.op = "ratchetDecrypt"
        /\ lastRet'.status = "AuthenticationFailure"
        /\ calls' = calls)
       => sessions' = sessions]_vars

\* a decrypt that attempted a DH-ratchet step has failed, and the session it
\* ran on still has the sender ratchet key of the handshake and no skipped key
FailedRatchetNotKept ==
    /\ lastRet.op = "ratchetDecrypt"
    /\ lastRet.status = "AuthenticationFailure"
    /\ lastRet.tamper = "ratchetKey"
    /\ \E sid \in DOMAIN sessions[lastRet.dev] :
            /\ sessions[lastRet.dev][sid].receiverRatchetPublic # Intruder.publicKey
            /\ sessions[lastRet.dev][sid].skippedMessageKeys = {}

\* C7 Per-session serialization: no two envelopes returned for the same
\* session carry the same senderRatchetKey and messageCounter.
NoSharedPosition ==
    \A o1 \in outbox : \A o2 \in outbox :
        (/\ o1.dev = o2.dev
         /\ o1.sessionId = o2.sessionId
         /\ o1.envelope.header.senderRatchetKey = o2.envelope.header.senderRatchetKey
         /\ o1.envelope.header.messageCounter = o2.envelope.header.messageCounter)
        => o1 = o2

\* C8 Persist before return: once no call of a device is suspended, as after
\* a crash, every envelope its ratchetEncrypt returned has its chain position
\* used in the persisted state: the session is stored with a sending chain,
\* and on the envelope's sender ratchet key sendingChainLength is past the
\* envelope's messageCounter.
ReturnedPositionsUsed ==
    \A o \in outbox :
        Alone(o.dev)
        => /\ o.sessionId \in DOMAIN sessions[o.dev]
           /\ sessions[o.dev][o.sessionId].sendingChainKey # Null
           /\ sessions[o.dev][o.sessionId].senderRatchetPublic
                    = o.envelope.header.senderRatchetKey
                => sessions[o.dev][o.sessionId].sendingChainLength
                    > o.envelope.header.messageCounter

\* C11 Rotated signed prekey: when acceptSession is given a header that was
\* built against a signed prekey other than the responder's current one, it
\* ends with the signed-prekey-not-found error, stores no SessionState and
\* leaves the key store, the one-time prekeys included, as it was.
RotatedPrekeyRefused ==
    [][\A d \in Responders : \A w \in wire :
          (/\ AcceptSession(d, w)
           /\ w.signedPrekeyId # async[d].current_signed_prekey_id)
          => /\ lastRet'.status = "SignedPrekeyNotFound"
             /\ sessions' = sessions
             /\ secure' = secure]_vars

\* C12 One-time prekey consumption: one-time prekeys leave the key store only
\* when acceptSession deletes them, so a header naming a one-time prekey that
\* is not in the store names a consumed one; acceptSession of such a header
\* fails and leaves every stored session as it was.
ConsumedPrekeyRefused ==
    [][\A d \in Responders : \A w \in wire :
          (/\ AcceptSession(d, w)
           /\ w.header.usedOneTimePrekey # Null
           /\ ~Has(secure[d], <<"otp", w.header.usedOneTimePrekey>>))
          => /\ lastRet'.status # "ok"
             /\ sessions' = sessions]_vars

\* C13 One-time prekey used once: no two acceptSession calls of a device have
\* both computed their fourth Diffie-Hellman result from the private half of
\* the same one-time prekey.
OneTimePrekeyUsedOnce ==
    \A d \in Devices : \A i \in Slots : \A j \in Slots \ {i} :
        (/\ calls[d][i] # Idle
         /\ calls[d][j] # Idle
         /\ calls[d][i].op = "acceptSession"
         /\ calls[d][j].op = "acceptSession"
         /\ calls[d][i].stage = "save"
         /\ calls[d][j].stage = "save"
         /\ calls[d][i].header.usedOneTimePrekey = calls[d][j].header.usedOneTimePrekey)
        => ~(calls[d][i].result.dh4 # Null /\ calls[d][j].result.dh4 # Null)

\* C20 Initiation is all-or-nothing: when an initSession call is interrupted,
\* no stored entry holds the SessionState of its handshake; when it returns,
\* exactly one entry does.
InitiationAllOrNothing ==
    [][\A d \in Devices, i \in Slots :
          LET c == calls[d][i]
              entries == {sid \in DOMAIN sessions'[d] : sessions'[d][sid] = c.state}
          IN  (/\ c # Idle
               /\ c.op = "initSession"
               /\ calls'[d][i] = Idle)
              => IF Crash(d) THEN entries = {} ELSE Cardinality(entries) = 1]_vars

\* C14 No session, no ratchet: a ratchetEncrypt or ratchetDecrypt called with
\* a sessionId under which no SessionState is stored ends with the no-session
\* error and leaves the stored sessions and the calls under way as they were;
\* every call that gets as far as its save, and every envelope returned, is on
\* a sessionId under which a SessionState is stored.
NoSessionNoRatchet ==
    [][/\ \A d \in Devices, i \in Slots : \A sid \in SessionIds(d) :
            sid \notin DOMAIN sessions[d]
            => /\ \A p \in Plaintexts :
                    EncryptStart(d, i, sid, p)
                    => /\ lastRet' = [op |-> "ratchetEncrypt", dev |-> d,
                                      status |-> "NoSession"]
                       /\ sessions' = sessions
                       /\ calls' = calls
               /\ \A msg \in Sent(d) :
                    DecryptStart(d, i, sid, msg)
                    => /\ lastRet'.op = "ratchetDecrypt"
                       /\ lastRet'.status = "NoSession"
                       /\ sessions' = sessions
                       /\ calls' = calls
       /\ \A d \in Devices, i \in Slots :
            calls'[d][i] # Idle => calls'[d][i].sessionId \in DOMAIN sessions'[d]
       /\ \A o \in outbox' : o.sessionId \in DOMAIN sessions'[o.dev]]_vars

\* a ratchetDecrypt under the user id of the peer was refused for want of a
\* session on a device that holds a session under the identity-key prefix
NoSessionRefused ==
    /\ lastRet.op = "ratchetDecrypt"
    /\ lastRet.status = "NoSession"
    /\ DOMAIN sessions[lastRet.dev] # {}

\* the message key an envelope was sealed with
MessageKeyOf(envelope) == fromBase64(envelope.ciphertext)[2]

\* C15 No chain position used twice: no two envelopes returned by
\* ratchetEncrypt for one session with the same senderRatchetKey carry the
\* same messageCounter or are sealed with the same message key.
ChainPositionUsedOnce ==
    \A o1 \in outbox : \A o2 \in outbox \ {o1} :
        (/\ o1.dev = o2.dev
         /\ o1.sessionId = o2.sessionId
         /\ o1.envelope.header.senderRatchetKey = o2.envelope.header.senderRatchetKey)
        => /\ o1.envelope.header.messageCounter # o2.envelope.header.messageCounter
           /\ MessageKeyOf(o1.envelope) # MessageKeyOf(o2.envelope)

\* C16 Root key changes only on a DH-ratchet step: when a ratchetEncrypt that
\* found senderRatchetPrivate set, or a ratchetDecrypt of an envelope whose
\* senderRatchetKey was the stored receiverRatchetPublic, saves and returns,
\* the persisted rootKey of the session is what it was before.
RootKeyFrame ==
    [][\A d \in Devices, i \in Slots :
          LET c == calls[d][i]
          IN  (/\ c # Idle
               /\ c.op \in {"ratchetEncrypt", "ratchetDecrypt"}
               /\ ~c.ratchet
               /\ calls'[d][i] = Idle
               /\ c.sessionId \in DOMAIN sessions[d])
              => sessions'[d][c.sessionId].rootKey
                    = sessions[d][c.sessionId].rootKey]_vars

\* C17 Skipped keys are used once: no two ratchetDecrypt calls on a session
\* have both passed the check of the seal with the message key of the same
\* skippedMessageKeys entry.
SkippedKeyUsedOnce ==
    \A d \in Devices : \A i \in Slots : \A j \in Slots \ {i} :
        (/\ calls[d][i] # Idle
         /\ calls[d][j] # Idle
         /\ calls[d][i].op = "ratchetDecrypt"
         /\ calls[d][j].op = "ratchetDecrypt"
         /\ calls[d][i].sessionId = calls[d][j].sessionId
         /\ calls[d][i].usedSkipped # Null)
        => calls[d][i].usedSkipped # calls[d][j].usedSkipped

\* C18 Skipped keys are capped: the number of entries of a persisted
\* skippedMessageKeys stays under a cap that does not grow with the message
\* counters of the envelopes; here, under the highest counter a peer sends.
SkippedKeysCapped ==
    \A d \in Devices : \A sid \in DOMAIN sessions[d] :
        Cardinality(sessions[d][sid].skippedMessageKeys) < MaxCounter

\* C19 Forward secrecy of the sending chain: the message key of an envelope
\* that ratchetEncrypt has returned cannot be derived from the persisted
\* sendingChainKey of its session, neither directly nor after advancing the
\* chain: the persisted chain is past the position the envelope used.
SendingChainForwardSecret ==
    \A o \in outbox :
        (/\ o.sessionId \in DOMAIN sessions[o.dev]
         /\ sessions[o.dev][o.sessionId].sendingChainKey # Null)
        => \A k \in 0..(MaxCounter + 1) :
                hkdf(Advance(fromBase64(sessions[o.dev][o.sessionId].sendingChainKey), k),
                     "MessageKey", o.envelope.header.messageCounter, 32)
                    # MessageKeyOf(o.envelope)

\* C22: once ratchetDecrypt has returned the plaintext of an envelope, a later
\* ratchetDecrypt of the same envelope on that session does not succeed
ReplayRefused ==
    \A x \in delivered :
        x.sessionId \in DOMAIN sessions[x.dev] =>
            ratchetDecrypt(sessions[x.dev][x.sessionId], x.sessionId, x.envelope,
                           x.dev, fresh[x.dev]).status # "ok"

\* C29: in every persisted session the sending chain key is the chain key of
\* the last keying advanced sendingChainLength times, and the receiving chain
\* key is the chain key of the last keying advanced receivingChainLength times
ChainPositionConsistent ==
    \A d \in Devices : \A sid \in DOMAIN sessions[d] :
        LET s == sessions[d][sid]
        IN  /\ s.sendingChainKey # Null =>
                    fromBase64(s.sendingChainKey)
                        = Advance(ChainBase(fromBase64(s.sendingChainKey)),
                                  s.sendingChainLength)
            /\ s.receivingChainKey # Null =>
                    fromBase64(s.receivingChainKey)
                        = Advance(ChainBase(fromBase64(s.receivingChainKey)),
                                  s.receivingChainLength)

\* C24: a device that has initiated or accepted a session with a peer holds it
\* under the peer's user id, where ratchetEncrypt(peerUserId, ...) and
\* ratchetDecrypt(senderId, ...) look it up
SessionFoundByUserId ==
    \A d \in Devices :
        DOMAIN sessions[d] # {} =>
            \E e \in Devices \ {d} : getSessionState(d, UserId(e)) # NoState

\* C23: the state acceptSession persists has no sending chain and no sender
\* ratchet key pair, sendingChainLength 0 and a receiving chain key; the first
\* ratchetEncrypt on it generates the ratchet key pair, makes one DH ratchet
\* step against receiverRatchetPublic that replaces the root key, and emits
\* messageCounter 0 on the new sending chain; a ratchetEncrypt called after one
\* has returned an envelope on the session generates no key pair
ResponderStateMachine ==
    [][\A d \in Responders :
        /\ \A sid \in DOMAIN sessions'[d] \ DOMAIN sessions[d] :
                LET s == sessions'[d][sid]
                IN  /\ s.sendingChainKey = Null
                    /\ s.senderRatchetPrivate = Null
                    /\ s.senderRatchetPublic = Null
                    /\ s.sendingChainLength = 0
                    /\ s.receivingChainKey # Null
        /\ \A i \in Slots :
                (calls[d][i] = Idle /\ calls'[d][i] # Idle
                    /\ calls'[d][i].op = "ratchetEncrypt") =>
                LET c == calls'[d][i]
                    loaded == sessions[d][c.sessionId]
                    returned == {o \in outbox : o.dev = d /\ o.sessionId = c.sessionId}
                    dhOut == performDH(c.state.senderRatchetPrivate,
                                       loaded.receiverRatchetPublic)
                    ratchetKeys == hkdf(BufferConcat(<<fromBase64(loaded.rootKey), dhOut>>),
                                        "WhispChat-Ratchet", "ChainKey", 64)
                IN  IF returned = {}
                    THEN /\ c.ratchet
                         /\ c.state.senderRatchetPrivate # Null
                         /\ c.state.rootKey = toBase64(slice(ratchetKeys, 0))
                         /\ c.state.rootKey # loaded.rootKey
                         /\ fromBase64(c.state.sendingChainKey)
                                = Advance(slice(ratchetKeys, 32), 1)
                         /\ c.state.sendingChainLength = 1
                         /\ c.envelope.header.messageCounter = 0
                    ELSE ~c.ratchet]_vars

\* C21: decryptFile returns bytes only when the file key was ratchet-decrypted
\* and the blob passed the AEAD check, and then they are the file's bytes; a
\* failure at either stage is an error that carries no bytes
DecryptFileAllOrNothing ==
    lastRet.op = "decryptFile" =>
        IF lastRet.status = "ok"
        THEN lastRet.stage = "blob" /\ lastRet.damage = "none"
                /\ lastRet.bytes = FileBytes
        ELSE lastRet.bytes = Null

\* the file key was ratchet-decrypted and the blob then failed its check
BlobRefused ==
    /\ lastRet.op = "decryptFile"
    /\ lastRet.stage = "blob"
    /\ lastRet.damage = "blob"
    /\ lastRet.status = "DecryptionFailed"

\* C30: when decryptFile has ratchet-decrypted the file key and then throws
\* because the blob fails its check, with no other call on the device, the
\* persisted session is the one the call loaded
FailedDecryptFileKeepsSession ==
    [][\A d \in Responders, i \in Slots :
        (/\ calls[d][i] # Idle
         /\ calls[d][i].op = "decryptFile"
         /\ calls[d][i].stage = "blob"
         /\ calls[d][i].file.damage = "blob"
         /\ \A j \in Slots \ {i} : calls[d][j] = Idle
         /\ calls'[d][i] = Idle
         /\ lastRet'.op = "decryptFile"
         /\ lastRet'.status # "ok")
        => sessions'[d][calls[d][i].sessionId] = calls[d][i].loaded]_vars

\* the ids in the queue
Queued == {queue[n] : n \in DOMAIN queue}

\* the processQueue calls that are under way
ActiveLoops == {l \in Loops : loops[l] # NoLoop}

\* C25: at most one processQueue loop is active, and exactly when processing
\* is set; the message it is sending is the head of the queue; a message has
\* had a send attempt only if every message enqueued before it has left the
\* queue
OneAtATimeFIFO ==
    /\ Cardinality(ActiveLoops) <= 1
    /\ processing <=> ActiveLoops # {}
    /\ \A l \in ActiveLoops : queue # <<>> /\ loops[l].id = Head(queue)
    /\ \A k \in DOMAIN msgs :
            attempts[k] > 0 => \A j \in Queued : j >= k

\* two messages are queued while the first is being sent
SecondWaitsForFirst ==
    /\ Len(queue) = 2
    /\ \E l \in Loops : loops[l].pc = "ack" /\ loops[l].id = 1
    /\ attempts[2] = 0

\* the calls of the status callback of message k
NotifiedOf(k) == {n \in DOMAIN notified : notified[n][1] = k}

====
